---------------------------- MODULE Spec2Model ----------------------------
(***************************************************************************)
(* noagent (src/index.js): a directory-tree text-file formatter.           *)
(*                                                                         *)
(* Text is a sequence of one-character strings; a file name is such a      *)
(* sequence, a path is a sequence of names.  What the program prints       *)
(* (the verbose trace, the summary) is not part of the state.              *)
(***************************************************************************)
EXTENDS Integers, Sequences, FiniteSets, TLC

VARIABLES
    pc,            \* position of the running function
    content,       \* formatFileContent: the argument
    formatted,     \* formatFileContent(content)
    reformatted,   \* formatFileContent(formatFileContent(content))
    argv,          \* parseArgs: process.argv.slice(2)
    argi,          \* parseArgs: the loop index i (1-based)
    config,        \* the configuration record
    fs,            \* the directory tree: inode -> node, and the inode of targetDir
    disk,          \* file inode -> content
    visited,       \* walkDirectory: the visited set
    stack,         \* walkDirectory: the activation records, innermost last
    entered,       \* walkDirectory: inodes of the directories listed, in order
    allFiles,      \* the list walkDirectory(config.targetDir, config) returned
    targetFiles,   \* main: allFiles filtered by extension
    outcomes,      \* main: the results of processFile, in call order
    stats,         \* main: the counters
    exitCode       \* the process's exit status, -1 while running

vars == << pc, content, formatted, reformatted, argv, argi, config, fs, disk,
           visited, stack, entered, allFiles, targetFiles, outcomes, stats,
           exitCode >>

-----------------------------------------------------------------------------
(* Bounds of the model *)

MaxLen == 4          \* longest content given to formatFileContent
MaxArgs == 2         \* longest argument list given to parseArgs
MaxDigits == 2       \* longest value of --max-depth=
MaxDepthBound == 3   \* largest config.maxDepth given to walkDirectory

-----------------------------------------------------------------------------
(* Text helpers *)

SP == " "
TAB == "\t"
NL == "\n"
CR == "\r"

RECURSIVE SeqsUpTo(_, _)
SeqsUpTo(S, n) ==
    IF n = 0 THEN { <<>> }
    ELSE LET shorter == SeqsUpTo(S, n - 1)
         IN  shorter \cup { Append(s, c) : s \in shorter, c \in S }

StartsWith(s, p) ==
    /\ Len(p) <= Len(s)
    /\ SubSeq(s, 1, Len(p)) = p

\* String.prototype.split(sep) for a one-character separator
RECURSIVE Split(_, _)
Split(s, sep) ==
    IF \A k \in 1..Len(s) : s[k] # sep
    THEN << s >>
    ELSE LET k == CHOOSE j \in 1..Len(s) :
                      /\ s[j] = sep
                      /\ \A h \in 1..(j - 1) : s[h] # sep
         IN  << SubSeq(s, 1, k - 1) >> \o Split(SubSeq(s, k + 1, Len(s)), sep)

\* Array.prototype.join(sep)
RECURSIVE Join(_, _)
Join(parts, sep) ==
    IF Len(parts) = 0 THEN <<>>
    ELSE IF Len(parts) = 1 THEN parts[1]
    ELSE parts[1] \o << sep >> \o Join(Tail(parts), sep)

\* s without its longest suffix made of characters of S
RECURSIVE DropTrailing(_, _)
DropTrailing(s, S) ==
    IF Len(s) > 0 /\ s[Len(s)] \in S
    THEN DropTrailing(SubSeq(s, 1, Len(s) - 1), S)
    ELSE s

RECURSIVE DropLeading(_, _)
DropLeading(s, S) ==
    IF Len(s) > 0 /\ s[1] \in S
    THEN DropLeading(Tail(s), S)
    ELSE s

-----------------------------------------------------------------------------
(* formatFileContent *)

\* line.replace(/[ \t]$/, ''): one trailing blank only
TrimLineOnce(line) ==
    IF Len(line) > 0 /\ line[Len(line)] \in { SP, TAB }
    THEN SubSeq(line, 1, Len(line) - 1)
    ELSE line

\* line.replace(/[ \t]+$/g, '')
TrimLine(line) == DropTrailing(line, { SP, TAB })

\* text.replace(/\n$/, ''): one trailing newline only
StripOneNewline(text) ==
    IF Len(text) > 0 /\ text[Len(text)] = NL
    THEN SubSeq(text, 1, Len(text) - 1)
    ELSE text

\* text.replace(/\n*$/, '')
StripTrailingNewlines(text) == DropTrailing(text, { NL })

formatFileContent(c) ==
    LET lines   == Split(c, NL)
        trimmed == [k \in 1..Len(lines) |-> TrimLine(lines[k])]
    IN  StripTrailingNewlines(Join(trimmed, NL)) \o << NL >>

ContentChars == { SP, TAB, NL, CR, "a" }

Contents == SeqsUpTo(ContentChars, MaxLen)

-----------------------------------------------------------------------------
(* The defaults *)

DEFAULT_EXTS == <<
    <<".", "r", "s">>,
    <<".", "t", "s">>,
    <<".", "t", "s", "x">>,
    <<".", "j", "s">>,
    <<".", "j", "s", "x">>,
    <<".", "j", "s", "o", "n">>,
    <<".", "m", "d">>,
    <<".", "y", "m", "l">>,
    <<".", "y", "a", "m", "l">>,
    <<".", "c", "s", "s">>,
    <<".", "s", "c", "s", "s">>,
    <<".", "h", "t", "m", "l">>,
    <<".", "v", "u", "e">>,
    <<".", "p", "y">>,
    <<".", "g", "o">>,
    <<".", "j", "a", "v", "a">>,
    <<".", "c", "p", "p">>,
    <<".", "c">>,
    <<".", "h">> >>

DEFAULT_IGNORE_PATTERNS == <<
    <<"n", "o", "d", "e", "_", "m", "o", "d", "u", "l", "e", "s">>,
    <<".", "g", "i", "t">>,
    <<".", "s", "v", "n">>,
    <<".", "h", "g">>,
    <<"d", "i", "s", "t">>,
    <<"b", "u", "i", "l", "d">>,
    <<"c", "o", "v", "e", "r", "a", "g", "e">>,
    <<".", "n", "e", "x", "t">>,
    <<".", "n", "u", "x", "t">>,
    <<"t", "a", "r", "g", "e", "t">>,
    <<"v", "e", "n", "d", "o", "r">>,
    <<"_", "_", "p", "y", "c", "a", "c", "h", "e", "_", "_">>,
    <<".", "p", "y", "t", "e", "s", "t", "_", "c", "a", "c", "h", "e">>,
    <<".", "m", "y", "p", "y", "_", "c", "a", "c", "h", "e">>,
    <<"v", "e", "n", "v">>,
    <<"e", "n", "v">>,
    <<".", "e", "n", "v">>,
    <<".", "D", "S", "_", "S", "t", "o", "r", "e">>,
    <<"T", "h", "u", "m", "b", "s", ".", "d", "b">> >>

DEFAULT_MAX_DEPTH == 50

-----------------------------------------------------------------------------
(* Paths: an absolute path starts with ROOT *)

ROOT == << "/" >>
DOT == << "." >>
DOTDOT == << ".", "." >>

\* process.cwd()
Cwd == << ROOT, << "w" >> >>

RECURSIVE Normalize(_, _)
Normalize(done, rest) ==
    IF rest = <<>> THEN done
    ELSE LET seg == Head(rest)
         IN  IF seg = DOT \/ seg = <<>> THEN Normalize(done, Tail(rest))
             ELSE IF seg = DOTDOT
             THEN Normalize(IF Len(done) > 1
                            THEN SubSeq(done, 1, Len(done) - 1)
                            ELSE done,
                            Tail(rest))
             ELSE Normalize(Append(done, seg), Tail(rest))

\* the path a string spells: its segments, ROOT first when it starts with '/'
PathOf(chars) ==
    LET parts == Split(chars, "/")
    IN  IF StartsWith(chars, << "/" >>) THEN << ROOT >> \o Tail(parts) ELSE parts

\* path.resolve(p)
resolve(p) ==
    IF p # <<>> /\ Head(p) = ROOT
    THEN Normalize(<< ROOT >>, Tail(p))
    ELSE Normalize(<< ROOT >>, Tail(Cwd) \o p)

\* path.join(dir, entry), entry a name readdirSync returned
join(dir, entry) == Normalize(<<>>, Append(dir, entry))

\* path.relative(from, to), split on '/', for a path `to` below `from`
relative(from, to) ==
    IF StartsWith(to, from)
    THEN SubSeq(to, Len(from) + 1, Len(to))
    ELSE to

-----------------------------------------------------------------------------
(* parseArgs *)

\* An argument is [opt, val]: the option text up to and including its '=',
\* and what follows it; a positional argument has opt = "" and is val.

WhiteSpace == { SP, TAB, NL, CR }
Digits == { "0", "1", "2", "3", "4", "5", "6", "7", "8", "9" }
DigitValue(c) ==
    CASE c = "0" -> 0 [] c = "1" -> 1 [] c = "2" -> 2 [] c = "3" -> 3
      [] c = "4" -> 4 [] c = "5" -> 5 [] c = "6" -> 6 [] c = "7" -> 7
      [] c = "8" -> 8 [] c = "9" -> 9

RECURSIVE DigitPrefix(_)
DigitPrefix(s) ==
    IF s # <<>> /\ Head(s) \in Digits
    THEN << Head(s) >> \o DigitPrefix(Tail(s))
    ELSE <<>>

RECURSIVE Decimal(_)
Decimal(ds) ==
    IF ds = <<>> THEN 0
    ELSE 10 * Decimal(SubSeq(ds, 1, Len(ds) - 1)) + DigitValue(ds[Len(ds)])

\* parseInt(s, 10): [nan |-> TRUE] stands for NaN
parseInt(s) ==
    LET t      == DropLeading(s, WhiteSpace)
        signed == t # <<>> /\ Head(t) \in { "-", "+" }
        ds     == DigitPrefix(IF signed THEN Tail(t) ELSE t)
    IN  IF ds = <<>> THEN [nan |-> TRUE, val |-> 0]
        ELSE [nan |-> FALSE,
              val |-> IF signed /\ Head(t) = "-" THEN 0 - Decimal(ds) ELSE Decimal(ds)]

\* n || fallback: NaN and 0 are falsy
FalsyOr(n, fallback) == IF n.nan \/ n.val = 0 THEN fallback ELSE n.val

\* String.prototype.trim()
trim(s) == DropTrailing(DropLeading(s, WhiteSpace), WhiteSpace)

SplitList(val) ==
    LET parts == Split(val, ",")
    IN  [k \in 1..Len(parts) |-> trim(parts[k])]

DefaultConfig ==
    [ extensions     |-> DEFAULT_EXTS,
      ignorePatterns |-> DEFAULT_IGNORE_PATTERNS,
      maxDepth       |-> DEFAULT_MAX_DEPTH,
      dryRun         |-> FALSE,
      verbose        |-> FALSE,
      help           |-> FALSE,
      targetDir      |-> Cwd ]

\* the body of the loop over args
ParseArg(cfg, arg) ==
    IF arg.opt \in { "--help", "-h" } THEN [cfg EXCEPT !.help = TRUE]
    ELSE IF arg.opt \in { "--dry-run", "-n" } THEN [cfg EXCEPT !.dryRun = TRUE]
    ELSE IF arg.opt \in { "--verbose", "-v" } THEN [cfg EXCEPT !.verbose = TRUE]
    ELSE IF arg.opt = "--ext="
    THEN LET exts == SplitList(arg.val)
         IN  [cfg EXCEPT !.extensions =
                 [k \in 1..Len(exts) |->
                     IF StartsWith(exts[k], << "." >>)
                     THEN exts[k] ELSE << "." >> \o exts[k]]]
    ELSE IF arg.opt = "--ignore="
    THEN [cfg EXCEPT !.ignorePatterns = @ \o SplitList(arg.val)]
    ELSE IF arg.opt = "--max-depth="
    THEN [cfg EXCEPT !.maxDepth = FalsyOr(parseInt(arg.val), DEFAULT_MAX_DEPTH)]
    ELSE IF arg.opt = ""
    THEN [cfg EXCEPT !.targetDir = resolve(PathOf(arg.val))]
    ELSE cfg

RECURSIVE ParseFrom(_, _)
ParseFrom(cfg, args) ==
    IF args = <<>> THEN cfg
    ELSE ParseFrom(ParseArg(cfg, Head(args)), Tail(args))

parseArgs(args) == ParseFrom(DefaultConfig, args)

-----------------------------------------------------------------------------
(* The file system *)

\* A node is a directory (its entries in readdir order), a regular file, a
\* symbolic link (target 0: dangling) or something else (a socket, a device).
\* fs.nodes is indexed by inode; fs.root is the inode at config.targetDir,
\* 0 when nothing is there.

Entry(name, ino) == [name |-> name, ino |-> ino]

Node(kind, entries, target, r, w, x) ==
    [kind |-> kind, entries |-> entries, target |-> target,
     readable |-> r, writable |-> w, searchable |-> x]

Dir(entries) == Node("dir", entries, 0, TRUE, TRUE, TRUE)
DirMode(entries, r, x) == Node("dir", entries, 0, r, TRUE, x)
File == Node("file", <<>>, 0, TRUE, TRUE, TRUE)
FileMode(r, w) == Node("file", <<>>, 0, r, w, TRUE)
Link(target) == Node("symlink", <<>>, target, TRUE, TRUE, TRUE)
Other == Node("other", <<>>, 0, TRUE, TRUE, TRUE)

\* the inode a chain of symbolic links ends at; 0 when it dangles or loops
RECURSIVE Follow(_, _, _)
Follow(nodes, ino, fuel) ==
    IF ino = 0 THEN 0
    ELSE IF nodes[ino].kind # "symlink" THEN ino
    ELSE IF fuel = 0 THEN 0
    ELSE Follow(nodes, nodes[ino].target, fuel - 1)

FollowLinks(nodes, ino) == Follow(nodes, ino, Len(nodes))

\* the inode of entry `name` of the directory `ino` resolves to; 0 when missing
Child(nodes, ino, name) ==
    LET d == FollowLinks(nodes, ino)
    IN  IF d = 0 THEN 0
        ELSE IF nodes[d].kind # "dir" \/ ~nodes[d].searchable THEN 0
        ELSE LET hits == { k \in 1..Len(nodes[d].entries) :
                               nodes[d].entries[k].name = name }
             IN  IF hits = {} THEN 0
                 ELSE nodes[d].entries[CHOOSE k \in hits : TRUE].ino

RECURSIVE Descend(_, _, _)
Descend(nodes, ino, names) ==
    IF names = <<>> \/ ino = 0 THEN ino
    ELSE Descend(nodes, Child(nodes, ino, Head(names)), Tail(names))

\* the inode a path names, its last component not followed (0: ENOENT, EACCES, ...)
LookupNoFollow(path) == Descend(fs.nodes, fs.root, relative(config.targetDir, path))

\* the inode a path names, symbolic links followed (0: ENOENT, ELOOP, ...)
Lookup(path) == FollowLinks(fs.nodes, LookupNoFollow(path))

\* lstatSync(path) and statSync(path): the node, kind "throws" on an error
Throws == [kind |-> "throws"]
lstatSync(path) ==
    IF LookupNoFollow(path) = 0 THEN Throws ELSE fs.nodes[LookupNoFollow(path)]
statSync(path) ==
    IF Lookup(path) = 0 THEN Throws ELSE fs.nodes[Lookup(path)]

\* readdirSync(dir) throws
ReaddirThrows(dir) ==
    \/ Lookup(dir) = 0
    \/ fs.nodes[Lookup(dir)].kind # "dir"
    \/ ~fs.nodes[Lookup(dir)].readable

\* readdirSync(dir), when it does not throw
readdirSync(dir) ==
    LET es == fs.nodes[Lookup(dir)].entries
    IN  [k \in 1..Len(es) |-> es[k].name]

-----------------------------------------------------------------------------
(* shouldIgnore *)

\* new RegExp(pattern.replace(/\*/g, '.*')): the pattern's characters read as
\* a regular expression, '*' as ".*", '.' as any character, '^' and '$' as
\* the assertions; every other character of the model's alphabet is a literal
RegExpOf(pattern) ==
    [k \in 1..Len(pattern) |->
        CASE pattern[k] = "*" -> "DOTSTAR"
          [] pattern[k] = "." -> "DOT"
          [] pattern[k] = "^" -> "BOL"
          [] pattern[k] = "$" -> "EOL"
          [] OTHER -> pattern[k]]

\* the regular expression matches s from position pos (characters consumed)
RECURSIVE MatchAt(_, _, _)
MatchAt(re, s, pos) ==
    IF re = <<>> THEN TRUE
    ELSE LET t == Head(re)
         IN  CASE t = "DOTSTAR" ->
                      \E q \in pos..Len(s) : MatchAt(Tail(re), s, q)
               [] t = "DOT" -> pos < Len(s) /\ MatchAt(Tail(re), s, pos + 1)
               [] t = "BOL" -> pos = 0 /\ MatchAt(Tail(re), s, pos)
               [] t = "EOL" -> pos = Len(s) /\ MatchAt(Tail(re), s, pos)
               [] OTHER -> /\ pos < Len(s)
                           /\ s[pos + 1] = t
                           /\ MatchAt(Tail(re), s, pos + 1)

\* regex.test(s): a match starting anywhere
RegExpTest(re, s) == \E start \in 0..Len(s) : MatchAt(re, s, start)

Includes(s, c) == \E k \in 1..Len(s) : s[k] = c

PartMatches(part, pattern) ==
    IF Includes(pattern, "*")
    THEN RegExpTest(RegExpOf(pattern), part)
    ELSE part = pattern \/ StartsWith(part, pattern)

shouldIgnore(filePath, basePath, ignorePatterns) ==
    LET pathParts == relative(basePath, filePath)
    IN  \E p \in 1..Len(ignorePatterns) :
            \E k \in 1..Len(pathParts) :
                PartMatches(pathParts[k], ignorePatterns[p])

-----------------------------------------------------------------------------
(* walkDirectory *)

\* An activation record of walkDirectory(dir, config, visited, depth): phase
\* "call" before the body runs, "loop" inside the loop over entries (those
\* not yet looked at), "ret" at the return; files is the local list.
Frame(dir, depth) ==
    [dir |-> dir, depth |-> depth, phase |-> "call", entries |-> <<>>, files |-> <<>>]

\* frames the model lets the recursion nest, above what maxDepth allows
MaxFrames == MaxDepthBound + 3

Top == stack[Len(stack)]

SetTop(frame) == [stack EXCEPT ![Len(stack)] = frame]

\* a depth test that lets one more level through
DepthExceededLate(depth, cfg) == depth > cfg.maxDepth + 1

\* a depth test that never stops the recursion
DepthExceededNever(depth, cfg) == FALSE

\* depth > config.maxDepth
DepthExceeded(depth, cfg) == depth > cfg.maxDepth

\* how the head of the function ends: "deep" (the depth test returns),
\* "seen" (the visited test returns), "unreadable" (readdirSync throws and
\* the catch clause returns) or "list" (the loop starts)
CallOutcome(frame) ==
    IF DepthExceeded(frame.depth, config) THEN "deep"
    ELSE IF resolve(frame.dir) \in visited THEN "seen"
    ELSE IF ReaddirThrows(frame.dir) THEN "unreadable"
    ELSE "list"

\* the head of the function up to the loop: the depth test, the visited set,
\* readdirSync
WalkCall ==
    /\ pc = "walk"
    /\ stack # <<>>
    /\ Top.phase = "call"
    /\ stack' = IF CallOutcome(Top) = "list"
                THEN SetTop([Top EXCEPT !.phase = "loop",
                                        !.entries = readdirSync(Top.dir)])
                ELSE SetTop([Top EXCEPT !.phase = "ret"])
    /\ visited' = IF CallOutcome(Top) \in { "unreadable", "list" }
                  THEN visited \cup { resolve(Top.dir) }
                  ELSE visited
    /\ entered' = IF CallOutcome(Top) = "list"
                  THEN Append(entered, Lookup(Top.dir))
                  ELSE entered
    /\ UNCHANGED << pc, content, formatted, reformatted, argv, argi, config, fs,
                    disk, allFiles, targetFiles, outcomes, stats, exitCode >>

\* what one entry of the loop does: "skip" it, "push" its path, or "recurse"
EntryStep(fullPath) ==
    IF shouldIgnore(fullPath, config.targetDir, config.ignorePatterns) THEN "skip"
    ELSE LET lstat == lstatSync(fullPath)
         IN  IF lstat.kind = "throws" THEN "skip"
             ELSE IF lstat.kind = "symlink"
             THEN LET stat == statSync(fullPath)
                  IN  IF stat.kind = "throws" THEN "skip"
                      ELSE IF stat.kind = "dir" THEN "recurse"
                      ELSE IF stat.kind = "file" THEN "push"
                      ELSE "skip"
             ELSE IF lstat.kind = "dir" THEN "recurse"
             ELSE IF lstat.kind = "file" THEN "push"
             ELSE "skip"

\* the path of the entry the loop is at
EntryPath(frame) == join(frame.dir, Head(frame.entries))

\* the stack after one iteration of the loop
AfterEntry(frame) ==
    LET fullPath == EntryPath(frame)
        step     == EntryStep(fullPath)
        rest     == [frame EXCEPT !.entries = Tail(@)]
    IN  IF step = "recurse"
        THEN Append(SetTop(rest), Frame(fullPath, frame.depth + 1))
        ELSE IF step = "push"
        THEN SetTop([rest EXCEPT !.files = Append(@, fullPath)])
        ELSE SetTop(rest)

\* one iteration of the loop over entries, up to the recursive call
WalkEntry ==
    /\ pc = "walk"
    /\ stack # <<>>
    /\ Top.phase = "loop"
    /\ Top.entries # <<>>
    /\ EntryStep(EntryPath(Top)) = "recurse" => Len(stack) < MaxFrames
    /\ stack' = AfterEntry(Top)
    /\ UNCHANGED << pc, content, formatted, reformatted, argv, argi, config, fs,
                    disk, visited, entered, allFiles, targetFiles, outcomes,
                    stats, exitCode >>

\* return files: to the caller's files.push(...), or to main
WalkReturn ==
    /\ pc = "walk"
    /\ stack # <<>>
    /\ Top.phase = "ret" \/ (Top.phase = "loop" /\ Top.entries = <<>>)
    /\ IF Len(stack) = 1
       THEN /\ allFiles' = Top.files
            /\ stack' = <<>>
            /\ pc' = "walked"
       ELSE /\ stack' = [SubSeq(stack, 1, Len(stack) - 1) EXCEPT
                            ![Len(stack) - 1].files = @ \o Top.files]
            /\ UNCHANGED << allFiles, pc >>
    /\ UNCHANGED << content, formatted, reformatted, argv, argi, config, fs,
                    disk, visited, entered, targetFiles, outcomes, stats,
                    exitCode >>

-----------------------------------------------------------------------------
(* Directory trees *)

\* six directories, one below the other, a file in each
NestedTree ==
    [ root |-> 1,
      nodes |-> <<
        Dir(<< Entry(<< "f" >>, 2), Entry(<< "d" >>, 3) >>),
        File,
        Dir(<< Entry(<< "f" >>, 4), Entry(<< "d" >>, 5) >>),
        File,
        Dir(<< Entry(<< "f" >>, 6), Entry(<< "d" >>, 7) >>),
        File,
        Dir(<< Entry(<< "f" >>, 8), Entry(<< "d" >>, 9) >>),
        File,
        Dir(<< Entry(<< "f" >>, 10), Entry(<< "d" >>, 11) >>),
        File,
        Dir(<< Entry(<< "f" >>, 12) >>),
        File >> ]

\* d/up is a symbolic link to the root, an ancestor of d
CycleTree ==
    [ root |-> 1,
      nodes |-> <<
        Dir(<< Entry(<< "f" >>, 2), Entry(<< "d" >>, 3) >>),
        File,
        Dir(<< Entry(<< "g" >>, 4), Entry(<< "u", "p" >>, 5) >>),
        File,
        Link(1) >> ]

\* l is a link to the directory that holds it, m a link to l
SelfTree ==
    [ root |-> 1,
      nodes |-> <<
        Dir(<< Entry(<< "f" >>, 2), Entry(<< "l" >>, 3), Entry(<< "m" >>, 4) >>),
        File,
        Link(1),
        Link(3) >> ]

\* l and m are links to the directory d
DiamondTree ==
    [ root |-> 1,
      nodes |-> <<
        Dir(<< Entry(<< "d" >>, 2), Entry(<< "l" >>, 4), Entry(<< "m" >>, 5) >>),
        Dir(<< Entry(<< "f" >>, 3) >>),
        File,
        Link(2),
        Link(2) >> ]

\* a dangling link b, a link to a file lf, a link to itself lp, a socket s,
\* an unreadable directory u, an unsearchable directory n, a chain of links c
MiscTree ==
    [ root |-> 1,
      nodes |-> <<
        Dir(<< Entry(<< "f" >>, 2), Entry(<< "b" >>, 3), Entry(<< "l", "f" >>, 4), Entry(<< "l", "p" >>, 5), Entry(<< "s" >>, 6), Entry(<< "u" >>, 7), Entry(<< "n" >>, 8), Entry(<< "c" >>, 10) >>),
        File,
        Link(0),
        Link(2),
        Link(5),
        Other,
        DirMode(<< Entry(<< "g" >>, 9) >>, FALSE, TRUE),
        DirMode(<< Entry(<< "g" >>, 9) >>, TRUE, FALSE),
        File,
        Link(11),
        Link(12),
        Dir(<< Entry(<< "h" >>, 13), Entry(<< "l", "s" >>, 14) >>),
        File,
        Link(6) >> ]

\* names that meet the ignore patterns
IgnoreTree ==
    [ root |-> 1,
      nodes |-> <<
        Dir(<< Entry(<< "n", "m" >>, 2), Entry(<< "n", "m", "x" >>, 4), Entry(<< "a", ".", "m", "i", "n" >>, 6), Entry(<< "^", "a", "b" >>, 7), Entry(<< "s", "r", "c" >>, 8), Entry(<< "x", "n", "m" >>, 12) >>),
        Dir(<< Entry(<< "x", ".", "j", "s" >>, 3) >>),
        File,
        Dir(<< Entry(<< "y", ".", "j", "s" >>, 5) >>),
        File,
        File,
        File,
        Dir(<< Entry(<< "n", "m" >>, 9), Entry(<< "k" >>, 11), Entry(<< "^", "a", "d" >>, 13) >>),
        Dir(<< Entry(<< "z" >>, 10) >>),
        File,
        File,
        File,
        Dir(<< Entry(<< "q" >>, 14) >>),
        File >> ]

\* nothing at targetDir
MissingRoot ==
    [ root |-> 0,
      nodes |-> <<
        File >> ]

\* targetDir is a regular file
FileRoot ==
    [ root |-> 1,
      nodes |-> <<
        File >> ]

\* targetDir is a directory that cannot be listed
UnreadableRoot ==
    [ root |-> 1,
      nodes |-> <<
        DirMode(<< Entry(<< "f" >>, 2) >>, FALSE, TRUE),
        File >> ]

\* targetDir is a link to a directory
LinkRoot ==
    [ root |-> 1,
      nodes |-> <<
        Link(2),
        Dir(<< Entry(<< "f" >>, 3), Entry(<< "d" >>, 4) >>),
        File,
        Dir(<< Entry(<< "g" >>, 3) >>) >> ]

\* a project: no.js cannot be read, ro.js cannot be written, dist is ignored by
\* default, c.txt has no extension of the default list
ProjectTree ==
    [ root |-> 1,
      nodes |-> <<
        Dir(<< Entry(<< "n", "o", ".", "j", "s" >>, 2), Entry(<< "a", ".", "j", "s" >>, 3), Entry(<< "d", "i", "s", "t" >>, 4), Entry(<< "r", "o", ".", "j", "s" >>, 10), Entry(<< "b", ".", "m", "d" >>, 6), Entry(<< "c", ".", "t", "x", "t" >>, 7), Entry(<< "s", "u", "b" >>, 8) >>),
        FileMode(FALSE, TRUE),
        File,
        Dir(<< Entry(<< "d", ".", "j", "s" >>, 5) >>),
        File,
        File,
        File,
        Dir(<< Entry(<< "e", ".", "t", "s" >>, 9) >>),
        File,
        FileMode(TRUE, FALSE) >> ]

WalkTrees ==
    { NestedTree, CycleTree, SelfTree, DiamondTree, MiscTree, IgnoreTree,
      MissingRoot, FileRoot, UnreadableRoot, LinkRoot }

\* config.ignorePatterns given to walkDirectory
WalkPatterns ==
    { <<>>,
      << << "n", "m" >> >>,
      << << "*", ".", "m", "i", "n" >>, << "d" >> >>,
      << << "^", "a", "*" >> >> }

-----------------------------------------------------------------------------
(* Initial states *)

NoStats == [processed |-> 0, changed |-> 0, errors |-> 0, written |-> 0]

FormatIdle ==
    /\ content = <<>>
    /\ formatted = <<>>
    /\ reformatted = <<>>

ParseIdle ==
    /\ argv = <<>>
    /\ argi = 1

WalkIdle ==
    /\ fs = MissingRoot
    /\ visited = {}
    /\ stack = <<>>
    /\ entered = <<>>
    /\ allFiles = <<>>

MainIdle ==
    /\ disk = <<>>
    /\ targetFiles = <<>>
    /\ outcomes = <<>>
    /\ stats = NoStats
    /\ exitCode = -1

-----------------------------------------------------------------------------
(* formatFileContent, applied once and then to its own result *)

InitFormat ==
    /\ pc = "format"
    /\ content \in Contents
    /\ formatted = <<>>
    /\ reformatted = <<>>
    /\ config = DefaultConfig
    /\ ParseIdle /\ WalkIdle /\ MainIdle

FormatOnce ==
    /\ pc = "format"
    /\ formatted' = formatFileContent(content)
    /\ pc' = "formatted"
    /\ UNCHANGED << content, reformatted, argv, argi, config, fs, disk, visited,
                    stack, entered, allFiles, targetFiles, outcomes, stats,
                    exitCode >>

FormatAgain ==
    /\ pc = "formatted"
    /\ reformatted' = formatFileContent(formatted)
    /\ pc' = "reformatted"
    /\ UNCHANGED << content, formatted, argv, argi, config, fs, disk, visited,
                    stack, entered, allFiles, targetFiles, outcomes, stats,
                    exitCode >>

NextFormat == FormatOnce \/ FormatAgain

SpecFormat == InitFormat /\ [][NextFormat]_vars

-----------------------------------------------------------------------------
(* parseArgs, one argument at a time *)

Flag(opt) == [opt |-> opt, val |-> <<>>]

FlagArgs ==
    { Flag(o) : o \in { "--help", "-h", "--dry-run", "-n", "--verbose", "-v", "-x" } }

MaxDepthArg(val) == [opt |-> "--max-depth=", val |-> val]

MaxDepthArgs == { MaxDepthArg(v) : v \in SeqsUpTo({ "0", "1", "x" }, MaxDigits) }

ListArgs ==
    { [opt |-> "--ext=", val |-> << "j", "s", ",", " ", ".", "m", "d" >>],
      [opt |-> "--ignore=", val |-> << "t", "m", "p", ",", "*", ".", "l" >>] }

DirArgs ==
    { [opt |-> "", val |-> << "s", "r", "c" >>],
      [opt |-> "", val |-> << ".", ".", "/", "x" >>] }

Args == FlagArgs \cup MaxDepthArgs \cup ListArgs \cup DirArgs

InitParse ==
    /\ pc = "parse"
    /\ argv \in SeqsUpTo(Args, MaxArgs)
    /\ argi = 1
    /\ config = DefaultConfig
    /\ FormatIdle /\ WalkIdle /\ MainIdle

ParseStep ==
    /\ pc = "parse"
    /\ argi <= Len(argv)
    /\ config' = ParseArg(config, argv[argi])
    /\ argi' = argi + 1
    /\ UNCHANGED << pc, content, formatted, reformatted, argv, fs, disk, visited,
                    stack, entered, allFiles, targetFiles, outcomes, stats,
                    exitCode >>

ParseReturn ==
    /\ pc = "parse"
    /\ argi > Len(argv)
    /\ pc' = "parsed"
    /\ UNCHANGED << content, formatted, reformatted, argv, argi, config, fs, disk,
                    visited, stack, entered, allFiles, targetFiles, outcomes,
                    stats, exitCode >>

NextParse == ParseStep \/ ParseReturn

SpecParse == InitParse /\ [][NextParse]_vars

-----------------------------------------------------------------------------
(* walkDirectory(config.targetDir, config) *)

InitWalk ==
    /\ pc = "walk"
    /\ fs \in WalkTrees
    /\ \E d \in 0..MaxDepthBound, pats \in WalkPatterns :
           config = [DefaultConfig EXCEPT !.maxDepth = d, !.ignorePatterns = pats]
    /\ visited = {}
    /\ stack = << Frame(config.targetDir, 0) >>
    /\ entered = <<>>
    /\ allFiles = <<>>
    /\ FormatIdle /\ ParseIdle /\ MainIdle

NextWalk == WalkCall \/ WalkEntry \/ WalkReturn

SpecWalk == InitWalk /\ [][NextWalk]_vars

\* a step of the walk is possible
WalkCanStep ==
    /\ pc = "walk"
    /\ stack # <<>>
    /\ \/ Top.phase \in { "call", "ret" }
       \/ Top.entries = <<>>
       \/ EntryStep(EntryPath(Top)) # "recurse"
       \/ Len(stack) < MaxFrames

\* the walk runs on: the program is sequential, nothing else is scheduled and
\* no step waits.  This is WF_vars(NextWalk) with ENABLED <<NextWalk>>_vars
\* written out as WalkCanStep.
FairSpecWalk == SpecWalk /\ ([]<>~WalkCanStep \/ []<><<NextWalk>>_vars)

-----------------------------------------------------------------------------
(* processFile *)

\* path.extname(file): from the last '.' of the last segment, '' when there
\* is none or the segment starts with it
extname(file) ==
    LET base == file[Len(file)]
        dots == { k \in 1..Len(base) : base[k] = "." }
    IN  IF dots = {} THEN <<>>
        ELSE LET last == CHOOSE k \in dots : \A j \in dots : j <= k
             IN  IF last = 1 THEN <<>> ELSE SubSeq(base, last, Len(base))

\* readFileSync(filePath, 'utf8') throws
ReadThrows(filePath) ==
    \/ Lookup(filePath) = 0
    \/ fs.nodes[Lookup(filePath)].kind # "file"
    \/ ~fs.nodes[Lookup(filePath)].readable

\* writeFileSync(filePath, ...) throws
WriteThrows(filePath) ==
    \/ Lookup(filePath) = 0
    \/ fs.nodes[Lookup(filePath)].kind # "file"
    \/ ~fs.nodes[Lookup(filePath)].writable

\* error.message of a failed read or write
ReadErrorMessage == "EACCES: permission denied, open"
WriteErrorMessage == "EACCES: permission denied, open for writing"

\* the value of a property that is not set
Undefined == "undefined"

\* a value in a condition: the empty string and undefined are falsy
Truthy(v) == v \notin { "", Undefined }

Outcome(processed, changed, written) ==
    [processed |-> processed, changed |-> changed, written |-> written,
     error |-> Undefined]

\* a failure reported as a processed file
ErrorOutcomeProcessed(message) ==
    [processed |-> TRUE, changed |-> FALSE, written |-> FALSE, error |-> message]

\* the result of the catch clause
ErrorOutcome(message) ==
    [processed |-> FALSE, changed |-> FALSE, written |-> FALSE, error |-> message]

\* a test of dryRun that always takes the writing branch
DryRunIgnored(cfg) == FALSE

\* if (config.dryRun)
DryRun(cfg) == cfg.dryRun

\* processFile(filePath, config) on the contents d: the result and the
\* contents it leaves
processFile(filePath, cfg, d) ==
    IF ReadThrows(filePath)
    THEN [result |-> ErrorOutcome(ReadErrorMessage), disk |-> d]
    ELSE LET originalContent  == d[Lookup(filePath)]
             formattedContent == formatFileContent(originalContent)
         IN  IF originalContent # formattedContent
             THEN IF DryRun(cfg)
                  THEN [result |-> Outcome(TRUE, TRUE, FALSE), disk |-> d]
                  ELSE IF WriteThrows(filePath)
                  THEN [result |-> ErrorOutcome(WriteErrorMessage), disk |-> d]
                  ELSE [result |-> Outcome(TRUE, TRUE, TRUE),
                        disk |-> [d EXCEPT ![Lookup(filePath)] = formattedContent]]
             ELSE [result |-> Outcome(TRUE, FALSE, FALSE), disk |-> d]

-----------------------------------------------------------------------------
(* main, after parseArgs *)

\* the arguments of the runs modelled
MainArgvs ==
    { <<>>,
      << Flag("-n") >>,
      << MaxDepthArg(<< "1" >>) >>,
      << Flag("--dry-run"), MaxDepthArg(<< "0" >>) >>,
      << Flag("--help") >>,
      << [opt |-> "--ext=", val |-> << "j", "s", ",", " ", ".", "m", "d" >>] >> }

MainTrees == { ProjectTree, MissingRoot, FileRoot, UnreadableRoot }

Clean == << "a", NL >>
Dirty == << "a", SP, SP, NL, NL >>

\* the contents the files of a tree may have
DisksOf(tree) ==
    LET files == { i \in 1..Len(tree.nodes) : tree.nodes[i].kind = "file" }
    IN  { [i \in 1..Len(tree.nodes) |-> IF i \in files THEN c[i] ELSE <<>>] :
              c \in [files -> { Clean, Dirty }] }

InitMain ==
    /\ pc = "main"
    /\ argv \in MainArgvs
    /\ argi = Len(argv) + 1
    /\ config = parseArgs(argv)
    /\ fs \in MainTrees
    /\ disk \in DisksOf(fs)
    /\ visited = {}
    /\ stack = <<>>
    /\ entered = <<>>
    /\ allFiles = <<>>
    /\ targetFiles = <<>>
    /\ outcomes = <<>>
    /\ stats = NoStats
    /\ exitCode = -1
    /\ FormatIdle

\* main up to the call of walkDirectory; with --help, showHelp and return
MainStart ==
    /\ pc = "main"
    /\ IF config.help
       THEN /\ pc' = "done"
            /\ exitCode' = 0
            /\ UNCHANGED << stack, visited >>
       ELSE /\ pc' = "walk"
            /\ stack' = << Frame(config.targetDir, 0) >>
            /\ visited' = {}
            /\ UNCHANGED exitCode
    /\ UNCHANGED << content, formatted, reformatted, argv, argi, config, fs,
                    disk, entered, allFiles, targetFiles, outcomes, stats >>

\* allFiles.filter(file => config.extensions.includes(extname(file)))
RECURSIVE FilterByExt(_, _)
FilterByExt(files, exts) ==
    IF files = <<>> THEN <<>>
    ELSE LET keep == \E k \in 1..Len(exts) : exts[k] = extname(Head(files))
         IN  (IF keep THEN << Head(files) >> ELSE <<>>)
                 \o FilterByExt(Tail(files), exts)

\* the filter and the zeroed counters
FilterFiles ==
    /\ pc = "walked"
    /\ targetFiles' = FilterByExt(allFiles, config.extensions)
    /\ stats' = NoStats
    /\ pc' = "process"
    /\ UNCHANGED << content, formatted, reformatted, argv, argi, config, fs,
                    disk, visited, stack, entered, allFiles, outcomes,
                    exitCode >>

Count(flag) == IF flag THEN 1 ELSE 0

\* the file the loop over targetFiles is at, and what processFile does with it
CurrentFile == targetFiles[Len(outcomes) + 1]
Processed == processFile(CurrentFile, config, disk)

\* the counters after a result
Tally(st, result) ==
    [processed |-> st.processed + Count(result.processed),
     changed   |-> st.changed + Count(result.changed),
     written   |-> st.written + Count(result.written),
     errors    |-> st.errors + Count(Truthy(result.error))]

\* one iteration of the loop over targetFiles
ProcessNext ==
    /\ pc = "process"
    /\ Len(outcomes) < Len(targetFiles)
    /\ disk' = Processed.disk
    /\ outcomes' = Append(outcomes, [file |-> CurrentFile, result |-> Processed.result])
    /\ stats' = Tally(stats, Processed.result)
    /\ UNCHANGED << pc, content, formatted, reformatted, argv, argi, config, fs,
                    visited, stack, entered, allFiles, targetFiles, exitCode >>

\* the summary; main returns and the process exits normally.  No call of
\* the try block throws past walkDirectory's and processFile's own catch
\* clauses, so the catch clause of main is not reached.
Finish ==
    /\ pc = "process"
    /\ Len(outcomes) = Len(targetFiles)
    /\ pc' = "done"
    /\ exitCode' = 0
    /\ UNCHANGED << content, formatted, reformatted, argv, argi, config, fs,
                    disk, visited, stack, entered, allFiles, targetFiles,
                    outcomes, stats >>

Next ==
    \/ MainStart
    \/ WalkCall
    \/ WalkEntry
    \/ WalkReturn
    \/ FilterFiles
    \/ ProcessNext
    \/ Finish

Spec == InitMain /\ [][Next]_vars

-----------------------------------------------------------------------------
(* Properties of formatFileContent *)

\* C5: formatting is idempotent: formatting the formatted content again gives
\* the formatted content, for every content
C5_Idempotent == pc = "reformatted" => reformatted = formatted

\* a line with trailing blanks and two trailing newlines, formatted twice
C5_Witness ==
    /\ pc = "reformatted"
    /\ content = << "a", SP, NL, NL >>
    /\ formatted = << "a", NL >>

EndsWithOneNewline(text) ==
    /\ Len(text) >= 1
    /\ text[Len(text)] = NL
    /\ Len(text) >= 2 => text[Len(text) - 1] # NL

\* C6: the formatted content ends with exactly one newline: its last
\* character is a newline and the one before it, if any, is not
C6_OneTrailingNewline ==
    pc \in { "formatted", "reformatted" } => EndsWithOneNewline(formatted)

\* content that ends with three newlines has been formatted
C6_Witness ==
    /\ pc = "formatted"
    /\ content = << "a", NL, NL, NL >>
    /\ formatted = << "a", NL >>

-----------------------------------------------------------------------------
(* Properties of parseArgs *)

\* the decimal numeral of an integer N >= 0
IsNumeral(val) ==
    /\ val # <<>>
    /\ \A k \in 1..Len(val) : val[k] \in Digits
    /\ Len(val) > 1 => val[1] # "0"

\* the argument that sets maxDepth last
LastMaxDepth(k) ==
    /\ argv[k].opt = "--max-depth="
    /\ \A j \in (k + 1)..Len(argv) : argv[j].opt # "--max-depth="

\* C10: for every integer N >= 0 given as --max-depth=N, parseArgs returns
\* config.maxDepth = N
C10_MaxDepthIsN ==
    pc = "parsed" =>
        \A k \in 1..Len(argv) :
            LastMaxDepth(k) /\ IsNumeral(argv[k].val)
                => config.maxDepth = Decimal(argv[k].val)

-----------------------------------------------------------------------------
(* Properties of walkDirectory *)

\* the inodes of the entries of directory d (none when d is no directory)
EntriesOf(nodes, d) == { nodes[d].entries[k].ino : k \in 1..Len(nodes[d].entries) }

\* the inodes reached from the directories of `seen` through any number of
\* entries, symbolic links followed
RECURSIVE Below(_, _)
Below(nodes, seen) ==
    LET dirs == { FollowLinks(nodes, i) : i \in seen } \ { 0 }
        more == UNION { EntriesOf(nodes, d) : d \in dirs }
    IN  IF more \subseteq seen THEN seen ELSE Below(nodes, seen \cup more)

\* some symbolic link under the root points back to a directory it lies below
LinksBack(tree) ==
    /\ tree.root # 0
    /\ \E l \in Below(tree.nodes, { tree.root }) :
           /\ tree.nodes[l].kind = "symlink"
           /\ LET t == FollowLinks(tree.nodes, l)
              IN  /\ t # 0
                  /\ tree.nodes[t].kind = "dir"
                  /\ l \in Below(tree.nodes, EntriesOf(tree.nodes, t))

\* some directory was listed more than once
EnteredTwice ==
    \E i, j \in 1..Len(entered) : i < j /\ entered[i] = entered[j]

\* C1: in a tree where a symbolic link points back to an ancestor directory,
\* the walk nests no deeper than maxDepth allows and returns its list
C1_CycleSafe ==
    LinksBack(fs) =>
        /\ [](Len(stack) <= config.maxDepth + 2)
        /\ <>(pc = "walked")

\* the walk went round a cycle and returned
C1_Witness ==
    /\ pc = "walked"
    /\ LinksBack(fs)
    /\ EnteredTwice
    /\ allFiles # <<>>

\* C2: within one walk a directory, identified by its real path, is entered
\* at most once
C2_EnteredAtMostOnce == ~EnteredTwice

\* every path collected so far, returned or still in a local list
Collected ==
    { allFiles[k] : k \in 1..Len(allFiles) }
        \cup UNION { { stack[i].files[k] : k \in 1..Len(stack[i].files) } :
                       i \in 1..Len(stack) }

\* the directories between targetDir and the file a path names
Descents(path) == Len(relative(config.targetDir, path)) - 1

\* C3: every path the walk returns lies at most maxDepth directory descents
\* below the root; with maxDepth = 0 these are entries of the root only
C3_DepthBound == \A path \in Collected : Descents(path) <= config.maxDepth

\* with maxDepth = 0, the walk of the nested tree returned the root's file only
C3_Witness ==
    /\ pc = "walked"
    /\ fs = NestedTree
    /\ config.maxDepth = 0
    /\ config.ignorePatterns = <<>>
    /\ allFiles = << Append(config.targetDir, << "f" >>) >>

\* the pattern, '*' standing for any characters and every other character for
\* itself, matches the whole segment
RECURSIVE GlobMatches(_, _)
GlobMatches(pattern, segment) ==
    IF pattern = <<>> THEN segment = <<>>
    ELSE IF Head(pattern) = "*"
    THEN \E k \in 0..Len(segment) :
             GlobMatches(Tail(pattern), SubSeq(segment, k + 1, Len(segment)))
    ELSE /\ segment # <<>>
         /\ Head(segment) = Head(pattern)
         /\ GlobMatches(Tail(pattern), Tail(segment))

\* a segment matches an ignore pattern: it equals it, starts with it, or
\* matches it with '*' expanded
SegmentMatches(segment, pattern) ==
    \/ segment = pattern
    \/ StartsWith(segment, pattern)
    \/ Includes(pattern, "*") /\ GlobMatches(pattern, segment)

\* C4: no path the walk returns has, relative to targetDir, a segment that
\* matches an ignore pattern
C4_NoIgnoredSegment ==
    \A path \in Collected :
        LET parts == relative(config.targetDir, path)
        IN  \A k \in 1..Len(parts) :
                \A p \in 1..Len(config.ignorePatterns) :
                    ~SegmentMatches(parts[k], config.ignorePatterns[p])

-----------------------------------------------------------------------------
(* Properties of main *)

\* C7: with dryRun no file's content changes at any step, and every outcome
\* has written = false
C7_DryRunWritesNothing ==
    /\ [][config.dryRun => disk' = disk]_vars
    /\ [](config.dryRun =>
              \A k \in 1..Len(outcomes) : ~outcomes[k].result.written)

\* a dry run found a file to format, and left it as it was
C7_Witness ==
    /\ pc = "done"
    /\ config.dryRun
    /\ \E k \in 1..Len(outcomes) :
           /\ outcomes[k].result.changed
           /\ disk[Lookup(outcomes[k].file)] = Dirty

\* C8: when the root directory cannot be read, the run ends with a non-zero
\* exit status
C8_FatalExit ==
    (pc = "done" /\ ~config.help /\ ReaddirThrows(config.targetDir))
        => exitCode # 0

\* the outcomes so far with an error
Failures == { k \in 1..Len(outcomes) : Truthy(outcomes[k].result.error) }

\* the file is read, needs formatting, and the write throws.  A file that
\* cannot be written keeps its content, so the content now is the content read.
WriteFails(file) ==
    /\ ~ReadThrows(file)
    /\ disk[Lookup(file)] # formatFileContent(disk[Lookup(file)])
    /\ ~config.dryRun
    /\ WriteThrows(file)

\* C9: a failure gives an outcome with error set and processed, changed and
\* written false; the files are processed in list order, each once, whatever
\* came before; the error count is the number of failures
C9_ErrorIsolation ==
    /\ \A k \in 1..Len(outcomes) :
           /\ outcomes[k].file = targetFiles[k]
           /\ ReadThrows(outcomes[k].file) => k \in Failures
           /\ WriteFails(outcomes[k].file) => k \in Failures
           /\ k \in Failures =>
                  /\ ~outcomes[k].result.processed
                  /\ ~outcomes[k].result.changed
                  /\ ~outcomes[k].result.written
    /\ stats.errors = Cardinality(Failures)
    /\ stats.processed = Len(outcomes) - Cardinality(Failures)
    /\ (pc = "done" /\ ~config.help) => Len(outcomes) = Len(targetFiles)

\* a run ended in which a read failed first, later a write failed, and files
\* in between and after were processed
C9_Witness ==
    /\ pc = "done"
    /\ \E i, j, k, l \in 1..Len(outcomes) :
           /\ i < j /\ j < k /\ k < l
           /\ outcomes[i].result.error = ReadErrorMessage
           /\ outcomes[j].result.written
           /\ outcomes[k].result.error = WriteErrorMessage
           /\ outcomes[l].result.processed
    /\ stats.errors = 2

=============================================================================
